---- MODULE Spec2Model ----
(***************************************************************************)
(* The LucidTalk orchestrator (class LucidTalk, src/unnamed/part_000) as a *)
(* state machine.  One JavaScript event loop: a public async method runs   *)
(* synchronously up to its first await; the continuation after an await is *)
(* a microtask, and microtasks run in FIFO order (microQ); timers are      *)
(* macrotasks and run only when no microtask is queued.  The backend       *)
(* managers live outside the repository: whether their modules load and    *)
(* construct is a fact of the environment (env), whether each of their     *)
(* asynchronous calls succeeds is chosen when the call settles.            *)
(***************************************************************************)
EXTENDS Integers, Sequences, FiniteSets, TLC

VARIABLES
    phase,           \* "new" before the constructor ran, then "ready" or "ctorFailed"
    cfgIn,           \* the configuration object handed to the constructor
    env,             \* the environment: which backend modules load and construct
    config,          \* this.config
    isTranscribing,  \* this.isTranscribing
    currentSession,  \* this.currentSession: 0 is null, else an index into sessions
    sessions,        \* the session objects created so far (index = identity = id)
    managers,        \* this.managers: 0 is null, else the instance held
    calls,           \* the public calls issued so far, each with its position
    microQ,          \* the microtask queue: calls whose continuation is ready
    timers,          \* the intervals created by startMockTranscription
    subs,            \* the listeners registered on transcription managers
    raw,             \* the raw events the transcription manager has produced
    listeners,       \* the signals the application has a listener registered for
    emitted,         \* per signal, how often the orchestrator has emitted it
    lastEmit,        \* the signal emitted last, with what it carried
    backendCalls,    \* per backend method, how often it has been called
    now,             \* the clock: what Date.now() returns
    period,          \* the timer periods that have passed
    periodEvents,    \* transcription events emitted in the current period
    periodSess,      \* the session active when the current period began, or 0
    sessionEvents,   \* transcription events emitted since the last session:started
    startedOk,       \* a start has completed and stopTranscription was not called since
    budget           \* how many calls are issued and how many periods observed

vars == <<phase, cfgIn, env, config, isTranscribing, currentSession, sessions,
          managers, calls, microQ, timers, subs, raw, listeners, emitted, lastEmit,
          backendCalls, now, period, periodEvents, periodSess, sessionEvents,
          startedOk, budget>>


emits == <<emitted, lastEmit, sessionEvents>>

\* What summarize, shareSession and connectToSession never assign.
lifecycle == <<phase, cfgIn, env, budget, config, isTranscribing, currentSession,
               sessions, managers, timers, subs, raw, listeners, now, period,
               periodEvents, periodSess, startedOk>>

\* ------------------------------------------------------------------ bounds
\* The calls issued and the timer periods observed in a run of Spec.
MaxCalls == 3
MaxPeriods == 2
\* The calls issued in a run of SpecRace and of SpecP2P.
RaceCalls == 4
P2PCalls == 2
\* The calls issued in a run of SpecOps, of SpecShare and of SpecPrompt.
OpsCalls == 2
ShareCalls == 3
PromptCalls == 2
\* The calls issued and the raw events produced in a run of SpecForward.
ForwardCalls == 3
MaxRaw == 2

\* --------------------------------------------------------------- constants
\* The mock phrases of startMockTranscription.
mockPhrases ==
    << "Hello everyone, welcome to the meeting",
       "Let's start with the agenda for today",
       "First item is about the project timeline",
       "We need to discuss the upcoming deadline",
       "Any questions or concerns?" >>

\* The interval of the mock timer, in seconds.
MockIntervalSeconds == 3

\* confidence 0.95, in hundredths.
MockConfidence == 95

\* ------------------------------------------------------------ configuration
Omitted == "<omitted>"
Undefined == "<undefined>"

PrivacyInputs == {Omitted, Undefined, "", "local-only", "hybrid"}
AIInputs == {"local", "openai"}

\* The configuration objects the constructor is tried on.
ConfigInputs == [privacy : PrivacyInputs, p2p : BOOLEAN, ai : AIInputs]

Defaults == [privacy |-> "local-only", p2p |-> FALSE, ai |-> "local"]

\* { ...defaults, ...config }: a key of config overrides the default, also
\* when its value is undefined; an omitted key leaves the default.
MergeConfig(in) ==
    [privacy |-> IF in.privacy = Omitted THEN Defaults.privacy ELSE in.privacy,
     p2p     |-> in.p2p,
     ai      |-> in.ai]

\* JavaScript truthiness of a string-or-undefined value.
Falsy(v) == v \in {Undefined, ""}

\* validateConfig: throws iff !this.config.privacy.
ValidateConfigThrows(cfg) == Falsy(cfg.privacy)

NoConfig == [privacy |-> Undefined, p2p |-> FALSE, ai |-> "local"]

\* The AI block of initialize runs for a provider that is set and not 'local'.
AIConfigured(cfg) == ~Falsy(cfg.ai) /\ cfg.ai # "local"

\* What the P2P block of initialize can do: a require throws (nothing
\* assigned), the HyperdriveManager constructor throws (nothing assigned,
\* though the SessionDriveManager would construct), the SessionDriveManager
\* constructor throws (hyperdrive assigned), or both are assigned and
\* hyperdrive.initialize() is awaited.
P2POutcomes == {"loadFail", "hyperCtorFail", "sessionCtorFail", "await"}

\* The AI block: the require or the constructor throws (nothing assigned),
\* configure throws (the manager stays assigned), or all succeeds.
AIOutcomes == {"loadFail", "configureFail", "ok"}

\* The environments a configuration is run in: the outcome of each block of
\* initialize that the configuration enables.
Environments(cfg) ==
    [p2p   : IF cfg.p2p THEN P2POutcomes ELSE {"unused"},
     trans : BOOLEAN,
     ai    : IF AIConfigured(cfg) THEN AIOutcomes ELSE {"unused"}]

\* ----------------------------------------------------------------- records
NoKey == <<>>

NoSession ==
    [id |-> 0, startTime |-> 0, endTime |-> 0, status |-> "none",
     driveKey |-> NoKey, discoveryKey |-> NoKey]

\* The session object built by startTranscription; endTime 0 is "not set".
NewSession(id, t) ==
    [id |-> id, startTime |-> t, endTime |-> 0, status |-> "active",
     driveKey |-> NoKey, discoveryKey |-> NoKey]

\* What createSessionDrive(sessionId) resolves to.
DriveInfo(sid) ==
    [driveKey |-> <<"drive", sid>>, discoveryKey |-> <<"discovery", sid>>]

\* Managers that are present from construction on.
ManagersPreloaded ==
    [hyperdrive |-> 1, session |-> 1, transcription |-> 1, ai |-> 1,
     initialized |-> FALSE]

\* this.managers as the constructor sets it: every handle null.
NoManagers ==
    [hyperdrive |-> 0, session |-> 0, transcription |-> 0, ai |-> 0,
     initialized |-> FALSE]

Signals == {"initialized", "transcription", "session:started", "session:stopped",
            "session:updated", "summary:generated", "session:shared",
            "session:connected"}

\* The signals the application registers a listener for: onTranscription,
\* onSessionUpdate, and on('session:stopped', ...).
ListenerEvents == {"transcription", "session:updated", "session:stopped"}

BackendOps == {"hyperdrive.initialize", "ai.configure", "session.createSessionDrive",
               "transcription.startTranscription", "transcription.stopRecording",
               "transcription.getTranscript", "ai.generateSummary",
               "session.shareSession", "session.connectToSession"}

\* A signal with a session as its argument; heard tells whether a listener
\* is registered for it when it is emitted.
Signal(sig, sess) ==
    [sig |-> sig, sess |-> sess, val |-> NoKey, text |-> "", timestamp |-> 0,
     confidence |-> 0, isFinal |-> FALSE, speaker |-> "", heard |-> sig \in listeners]

\* A signal with a value returned by a backend as its argument.
ValueSignal(sig, val) == [Signal(sig, NoSession) EXCEPT !.val = val]

NoSignal == [sig |-> "none", sess |-> NoSession, val |-> NoKey, text |-> "",
             timestamp |-> 0, confidence |-> 0, isFinal |-> FALSE, speaker |-> "",
             heard |-> FALSE]

\* The event object built by the mock interval callback.
MockEvent(counter) ==
    [sig |-> "transcription", sess |-> NoSession, val |-> NoKey,
     text |-> mockPhrases[(counter % Len(mockPhrases)) + 1], timestamp |-> now,
     confidence |-> MockConfidence, isFinal |-> TRUE, speaker |-> "Speaker 1",
     heard |-> "transcription" \in listeners]

\* this.emit(...)
Emit(ev) ==
    /\ emitted' = [emitted EXCEPT ![ev.sig] = @ + 1]
    /\ lastEmit' = ev
    /\ sessionEvents' = IF ev.sig = "session:started" THEN 0
                        ELSE IF ev.sig = "transcription" THEN sessionEvents + 1
                        ELSE sessionEvents

\* A call of a backend manager's method.
Called(op) == backendCalls' = [backendCalls EXCEPT ![op] = @ + 1]

\* The start calls that have not yet completed.
StartsInFlight ==
    {d \in 1..Len(calls) : calls[d].kind = "start" /\ calls[d].pc \notin {"done", "failed"}}

\* The record of a call being issued: found is the flag as the call finds
\* it, during the start calls in flight at that moment; drive and hyper tell
\* how the call's createSessionDrive and hyperdrive.initialize() settled,
\* sess the session a start created or the one current when a stop began,
\* input the argument it was called with, arg and prompt what it passed to
\* the backend, val what it returned.
NewCall(kind) ==
    [kind |-> kind, pc |-> "new", settled |-> "none", err |-> "none",
     ret |-> 0, sess |-> 0, sid |-> 0, drive |-> "none", hyper |-> "none",
     input |-> Undefined, arg |-> NoKey, prompt |-> Undefined, val |-> NoKey,
     found |-> isTranscribing, during |-> StartsInFlight]

CurSession == IF currentSession = 0 THEN NoSession ELSE sessions[currentSession]

\* -------------------------------------------------------------------- Init
\* The state before the constructor runs, for a configuration object, an
\* environment and the bounds of the run.
Boot(cfg, e, b) ==
    /\ phase = "new"
    /\ cfgIn = cfg
    /\ env = e
    /\ budget = b
    /\ config = NoConfig
    /\ isTranscribing = FALSE
    /\ currentSession = 0
    /\ sessions = <<>>
    /\ managers = NoManagers
    /\ calls = <<>>
    /\ microQ = <<>>
    /\ timers = <<>>
    /\ subs = <<>>
    /\ raw = <<>>
    /\ listeners = {}
    /\ emitted = [s \in Signals |-> 0]
    /\ lastEmit = NoSignal
    /\ backendCalls = [op \in BackendOps |-> 0]
    /\ now = 1
    /\ period = 0
    /\ periodEvents = 0
    /\ periodSess = 0
    /\ sessionEvents = 0
    /\ startedOk = FALSE

\* The default configuration, given explicitly, and the same with P2P on.
LocalConfig == [privacy |-> "local-only", p2p |-> FALSE, ai |-> "local"]
P2PConfig == [privacy |-> "local-only", p2p |-> TRUE, ai |-> "local"]

\* The orchestrator without P2P, with and without a transcription backend.
Init ==
    \E e \in Environments(LocalConfig) :
        Boot(LocalConfig, e, [calls |-> MaxCalls, starts |-> MaxCalls,
                              periods |-> MaxPeriods])

\* The same, with one more call.
InitRace ==
    \E e \in Environments(LocalConfig) :
        Boot(LocalConfig, e, [calls |-> RaceCalls, starts |-> RaceCalls,
                              periods |-> MaxPeriods])

\* The orchestrator with P2P on, in every environment.
InitP2P ==
    \E e \in Environments(P2PConfig) :
        Boot(P2PConfig, e, [calls |-> P2PCalls, starts |-> P2PCalls,
                            periods |-> MaxPeriods])

\* A non-local AI provider, no P2P.
AIConfig == [privacy |-> "local-only", p2p |-> FALSE, ai |-> "openai"]

\* P2P and AI provider on or off, in every environment.
InitOps ==
    \E cfg \in [privacy : {"local-only"}, p2p : BOOLEAN, ai : AIInputs] :
        \E e \in Environments(cfg) :
            Boot(cfg, e, [calls |-> OpsCalls, starts |-> OpsCalls, periods |-> 0])

\* P2P and a non-local AI provider on.
FullConfig == [privacy |-> "local-only", p2p |-> TRUE, ai |-> "openai"]

\* P2P and AI provider on, in every environment, one more call.
InitShare ==
    \E e \in Environments(FullConfig) :
        Boot(FullConfig, e, [calls |-> ShareCalls, starts |-> ShareCalls,
                             periods |-> 0])

\* A non-local AI provider in every environment, no start call.
InitPrompt ==
    \E e \in Environments(AIConfig) :
        Boot(AIConfig, e, [calls |-> PromptCalls, starts |-> 0, periods |-> 0])

\* The default configuration with the transcription backend present.
InitForward ==
    \E e \in Environments(LocalConfig) :
        /\ e.trans
        /\ Boot(LocalConfig, e, [calls |-> ForwardCalls, starts |-> ForwardCalls,
                                 periods |-> 0])

\* Every configuration object in every environment, no call.
InitCtor ==
    \E cfg \in ConfigInputs : \E e \in Environments(cfg) :
        Boot(cfg, e, [calls |-> 0, starts |-> 0, periods |-> 0])

\* ------------------------------------------------------------- constructor
\* new LucidTalk(config): merge the defaults, reset the state, validate.
Constructor ==
    /\ phase = "new"
    /\ config' = MergeConfig(cfgIn)
    /\ isTranscribing' = FALSE
    /\ currentSession' = 0
    /\ managers' = NoManagers
    /\ phase' = IF ValidateConfigThrows(config') THEN "ctorFailed" ELSE "ready"
    /\ UNCHANGED <<cfgIn, env, budget, sessions, calls, microQ, timers, subs, raw,
                   listeners, emits, backendCalls, now, period, periodEvents,
                   periodSess, startedOk>>

\* -------------------------------------------------------------- initialize
\* The transcription block: this.managers.transcription = new ...() unless
\* the require or the constructor throws.
LoadTranscription(m, inst) ==
    IF env.trans THEN [m EXCEPT !.transcription = inst] ELSE m

\* An AI block that is run whatever provider is configured.
LoadAIAnyProvider(m, inst) ==
    IF env.ai # "loadFail" THEN [m EXCEPT !.ai = inst] ELSE m

\* The AI block: the manager is assigned before configure is called.
LoadAI(m, inst) ==
    IF AIConfigured(config) /\ env.ai \in {"configureFail", "ok"}
    THEN [m EXCEPT !.ai = inst] ELSE m

\* initialize from the transcription block to its end: the two blocks, the
\* initialized flag, the `initialized` signal.  inst names the instances
\* this run constructs; m is this.managers as the P2P block left it.
InitializeTail(inst, m) ==
    /\ managers' = [LoadAI(LoadTranscription(m, inst), inst)
                       EXCEPT !.initialized = TRUE]
    /\ IF AIConfigured(config) /\ env.ai \in {"configureFail", "ok"}
       THEN Called("ai.configure") ELSE UNCHANGED backendCalls
    /\ Emit(Signal("initialized", NoSession))

\* Whether initialize returns at once.
InitializeGuard == managers.initialized

\* initialize() from its first line up to its first await (suspended) or to
\* its end.
InitializeSync(inst, suspended) ==
    IF InitializeGuard THEN
        /\ ~suspended
        /\ UNCHANGED <<managers, backendCalls, emits>>
    ELSE IF config.p2p /\ env.p2p = "await" THEN
        /\ suspended
        /\ managers' = [managers EXCEPT !.hyperdrive = inst, !.session = inst]
        /\ Called("hyperdrive.initialize")
        /\ UNCHANGED emits
    ELSE
        /\ ~suspended
        /\ InitializeTail(inst,
               IF config.p2p /\ env.p2p = "sessionCtorFail"
               THEN [managers EXCEPT !.hyperdrive = inst] ELSE managers)

\* ------------------------------------------------------- microtasks, backend
Ready(c, kind, pc) ==
    /\ microQ # <<>>
    /\ Head(microQ) = c
    /\ calls[c].kind = kind
    /\ calls[c].pc = pc

\* A pending backend promise settles; the continuation of the call awaiting
\* it is queued as a microtask.  The backend's work took time: synchronous
\* code and microtasks take none.
BackendSettle(c, ok) ==
    /\ calls[c].settled = "pending"
    /\ calls' = [calls EXCEPT ![c].settled = IF ok THEN "resolved" ELSE "rejected"]
    /\ microQ' = Append(microQ, c)
    /\ now' = now + 1
    /\ UNCHANGED <<phase, cfgIn, env, budget, config, isTranscribing, currentSession, sessions,
                   managers, timers, subs, raw, listeners, emits, backendCalls,
                   period, periodEvents, periodSess,
                   startedOk>>

\* initialize() is called by the application: it runs to its end, or to
\* its first await.
InitializeCall ==
    /\ phase = "ready"
    /\ Len(calls) < budget.calls
    /\ LET c == Len(calls) + 1 IN
       \E suspended \in BOOLEAN :
           /\ InitializeSync(c, suspended)
           /\ calls' = Append(calls,
                  [NewCall("initialize") EXCEPT
                      !.pc = IF suspended THEN "awaitHyper" ELSE "done",
                      !.settled = IF suspended THEN "pending" ELSE "none"])
    /\ UNCHANGED <<phase, cfgIn, env, budget, config, isTranscribing, currentSession,
                   sessions, microQ, timers, subs, raw, listeners, now, period,
                   periodEvents, periodSess, startedOk>>

\* hyperdrive.initialize() has settled in an initialize() the application
\* called: its failure is caught and initialize runs to its end.
InitializeResume(c) ==
    /\ Ready(c, "initialize", "awaitHyper")
    /\ InitializeTail(c, managers)
    /\ calls' = [calls EXCEPT ![c].pc = "done", ![c].settled = "none",
                              ![c].hyper = calls[c].settled]
    /\ microQ' = Tail(microQ)
    /\ UNCHANGED <<phase, cfgIn, env, budget, config, isTranscribing, currentSession,
                   sessions, timers, subs, raw, listeners, now, period, periodEvents,
                   periodSess, startedOk>>

\* ------------------------------------------------------- startTranscription
\* The guard at the top of startTranscription.
StartGuard == isTranscribing

\* The mock interval as startMockTranscription creates it: counter 0, first
\* tick one period from now.
NewTimer(sess) == [sess |-> sess, counter |-> 0, live |-> TRUE, due |-> FALSE]

\* startTranscription from "Start transcription" on.  The caller has set
\* sessions' and currentSession'; rec is the call's record.
CaptureStart(c, rec) ==
    IF managers.transcription # 0 THEN
        /\ Called("transcription.startTranscription")
        /\ calls' = [calls EXCEPT ![c] = [rec EXCEPT !.pc = "awaitCapture",
                                                     !.settled = "pending",
                                                     !.sid = sessions'[currentSession'].id]]
        /\ UNCHANGED <<isTranscribing, timers, emits, subs, raw, startedOk>>
    ELSE
        /\ isTranscribing' = TRUE
        /\ startedOk' = TRUE
        /\ timers' = Append(timers, NewTimer(currentSession'))
        /\ Emit(Signal("session:started", sessions'[currentSession']))
        /\ calls' = [calls EXCEPT ![c] = [rec EXCEPT !.pc = "done",
                                                     !.settled = "none",
                                                     !.ret = currentSession']]
        /\ UNCHANGED <<backendCalls, subs, raw>>

\* startTranscription() is called: the guard, then initialize up to its
\* first await.
StartCall ==
    /\ phase = "ready"
    /\ Len(calls) < budget.calls
    /\ Cardinality({d \in 1..Len(calls) : calls[d].kind = "start"}) < budget.starts
    /\ LET c == Len(calls) + 1 IN
       IF StartGuard THEN
           /\ calls' = Append(calls, [NewCall("start") EXCEPT !.pc = "failed",
                                                              !.err = "AlreadyActive"])
           /\ UNCHANGED <<managers, backendCalls, emits, microQ>>
       ELSE
           \E suspended \in BOOLEAN :
               /\ InitializeSync(c, suspended)
               /\ calls' = Append(calls,
                      [NewCall("start") EXCEPT
                          !.pc = IF suspended THEN "awaitHyper" ELSE "afterInit",
                          !.settled = IF suspended THEN "pending" ELSE "none"])
               /\ microQ' = IF suspended THEN microQ ELSE Append(microQ, c)
    /\ UNCHANGED <<phase, cfgIn, env, budget, config, isTranscribing, currentSession, sessions,
                   timers, subs, raw, listeners, now, period, periodEvents, periodSess,
                   startedOk>>

\* hyperdrive.initialize() has settled: its failure is caught; initialize
\* runs to its end and the await in startTranscription is resumed later.
StartInitResume(c) ==
    /\ Ready(c, "start", "awaitHyper")
    /\ InitializeTail(c, managers)
    /\ calls' = [calls EXCEPT ![c].pc = "afterInit", ![c].settled = "none",
                              ![c].hyper = calls[c].settled]
    /\ microQ' = Append(Tail(microQ), c)
    /\ UNCHANGED <<phase, cfgIn, env, budget, config, isTranscribing, currentSession, sessions,
                   timers, subs, raw, listeners, now, period, periodEvents, periodSess,
                   startedOk>>

\* After `await this.initialize()`: the session is created; then the drive
\* is requested, or capture is started.
StartAfterInit(c) ==
    /\ Ready(c, "start", "afterInit")
    /\ LET id == Len(sessions) + 1
           rec == [calls[c] EXCEPT !.sess = id, !.sid = id]
       IN  /\ sessions' = Append(sessions, NewSession(id, now))
           /\ currentSession' = id
           /\ IF config.p2p /\ managers.session # 0 THEN
                  /\ Called("session.createSessionDrive")
                  /\ calls' = [calls EXCEPT ![c] = [rec EXCEPT !.pc = "awaitDrive",
                                                               !.settled = "pending"]]
                  /\ UNCHANGED <<isTranscribing, timers, emits, subs, raw, startedOk>>
              ELSE CaptureStart(c, rec)
    /\ microQ' = Tail(microQ)
    /\ UNCHANGED <<phase, cfgIn, env, budget, config, managers, listeners, now, period, periodEvents, periodSess>>

\* The keys are written to whatever this.currentSession is now.
RecordDrive(s, info) ==
    [s EXCEPT !.driveKey = info.driveKey, !.discoveryKey = info.discoveryKey]

\* createSessionDrive has settled: on success the keys are recorded, on
\* failure a warning is logged; capture is started either way.
StartDriveDone(c) ==
    /\ Ready(c, "start", "awaitDrive")
    /\ sessions' = IF calls[c].settled = "resolved"
                   THEN [sessions EXCEPT ![currentSession] =
                            RecordDrive(@, DriveInfo(calls[c].sid))]
                   ELSE sessions
    /\ currentSession' = currentSession
    /\ CaptureStart(c, [calls[c] EXCEPT !.drive = calls[c].settled])
    /\ microQ' = Tail(microQ)
    /\ UNCHANGED <<phase, cfgIn, env, budget, config, managers, listeners, now, period, periodEvents, periodSess>>

\* The delegated startTranscription has settled: on success the forwarding
\* listener is registered, the flag is set, session:started is emitted and
\* this.currentSession is returned; on failure the error is rethrown.
StartCaptureDone(c) ==
    /\ Ready(c, "start", "awaitCapture")
    /\ IF calls[c].settled = "resolved" THEN
           /\ subs' = Append(subs, managers.transcription)
           /\ isTranscribing' = TRUE
           /\ startedOk' = TRUE
           /\ Emit(Signal("session:started", CurSession))
           /\ calls' = [calls EXCEPT ![c].pc = "done", ![c].settled = "none",
                                     ![c].ret = currentSession]
       ELSE
           /\ calls' = [calls EXCEPT ![c].pc = "failed", ![c].settled = "none",
                                     ![c].err = "DelegationFailure"]
           /\ UNCHANGED <<subs, isTranscribing, emits, startedOk>>
    /\ microQ' = Tail(microQ)
    /\ UNCHANGED <<phase, cfgIn, env, budget, config, currentSession, sessions, managers,
                   timers, raw, listeners, backendCalls, now, period, periodEvents,
                   periodSess>>

\* -------------------------------------------------------- stopTranscription
\* A guard that looks at the session instead of the flag.
StopGuardOnSession == currentSession = 0

\* The guard at the top of stopTranscription: return if not transcribing.
StopGuard == ~isTranscribing

\* An end of session that forgets the status.
EndSessionKeepsStatus(s, t) == [s EXCEPT !.endTime = t]

\* this.currentSession.endTime = Date.now(); status = 'ended'.
EndSession(s, t) == [s EXCEPT !.endTime = t, !.status = "ended"]

\* stopTranscription after the delegated stop: the flag is cleared, the
\* current session is ended and session:stopped is emitted with it.
StopTail ==
    /\ isTranscribing' = FALSE
    /\ IF currentSession # 0 THEN
           /\ sessions' = [sessions EXCEPT ![currentSession] = EndSession(@, now)]
           /\ Emit(Signal("session:stopped", sessions'[currentSession]))
       ELSE UNCHANGED <<sessions, emits>>

\* stopTranscription() is called: a no-op when not transcribing; with a
\* transcription manager stopRecording() is awaited; without one the call
\* runs to its end at once.
StopCall ==
    /\ phase = "ready"
    /\ Len(calls) < budget.calls
    /\ startedOk' = FALSE
    /\ IF StopGuard THEN
           /\ calls' = Append(calls, [NewCall("stop") EXCEPT !.pc = "done"])
           /\ UNCHANGED <<isTranscribing, sessions, emits, backendCalls>>
       ELSE IF managers.transcription # 0 THEN
           /\ Called("transcription.stopRecording")
           /\ calls' = Append(calls, [NewCall("stop") EXCEPT !.pc = "awaitStop",
                                                             !.settled = "pending",
                                                             !.sess = currentSession])
           /\ UNCHANGED <<isTranscribing, sessions, emits>>
       ELSE
           /\ StopTail
           /\ calls' = Append(calls, [NewCall("stop") EXCEPT !.pc = "done"])
           /\ UNCHANGED backendCalls
    /\ UNCHANGED <<phase, cfgIn, env, budget, config, currentSession, managers, microQ, timers,
                   subs, raw, listeners, now, period, periodEvents, periodSess>>

\* A test that takes any settled stopRecording() for a success.
StopRecordingSettled(c) == calls[c].settled # "pending"

\* Whether the stopRecording() call c awaited has succeeded.
StopRecordingOk(c) == calls[c].settled = "resolved"

\* stopRecording() has settled: on failure stopTranscription rejects with
\* nothing changed, on success it runs to its end.
StopResume(c) ==
    /\ Ready(c, "stop", "awaitStop")
    /\ IF StopRecordingOk(c) THEN
           /\ StopTail
           /\ calls' = [calls EXCEPT ![c].pc = "done", ![c].settled = "none"]
       ELSE
           /\ calls' = [calls EXCEPT ![c].pc = "failed", ![c].settled = "none",
                                     ![c].err = "DelegationFailure"]
           /\ UNCHANGED <<isTranscribing, sessions, emits>>
    /\ microQ' = Tail(microQ)
    /\ UNCHANGED <<phase, cfgIn, env, budget, config, currentSession, managers, timers, subs, raw,
                   listeners, backendCalls, now, period, periodEvents, periodSess,
                   startedOk>>

\* ------------------------------------------------------------------ dispose
\* dispose() is called: when transcribing, stopTranscription() is called and
\* awaited; else the listeners are removed at once.
DisposeCall ==
    /\ phase = "ready"
    /\ Len(calls) < budget.calls
    /\ startedOk' = (startedOk /\ ~isTranscribing)
    /\ LET c == Len(calls) + 1 IN
       IF ~isTranscribing THEN
           /\ listeners' = {}
           /\ calls' = Append(calls, [NewCall("dispose") EXCEPT !.pc = "done"])
           /\ UNCHANGED <<isTranscribing, sessions, emits, backendCalls, microQ>>
       ELSE IF managers.transcription # 0 THEN
           /\ Called("transcription.stopRecording")
           /\ calls' = Append(calls, [NewCall("dispose") EXCEPT !.pc = "awaitStop",
                                                                !.settled = "pending",
                                                                !.sess = currentSession])
           /\ UNCHANGED <<isTranscribing, sessions, emits, listeners, microQ>>
       ELSE
           /\ StopTail
           /\ calls' = Append(calls, [NewCall("dispose") EXCEPT !.pc = "afterStop"])
           /\ microQ' = Append(microQ, c)
           /\ UNCHANGED <<backendCalls, listeners>>
    /\ UNCHANGED <<phase, cfgIn, env, budget, config, currentSession, managers, timers, subs, raw,
                   now, period, periodEvents, periodSess>>

\* stopRecording() has settled inside dispose: stopTranscription runs to its
\* end and dispose is resumed later, or dispose rejects with its error.
DisposeStopResume(c) ==
    /\ Ready(c, "dispose", "awaitStop")
    /\ IF StopRecordingOk(c) THEN
           /\ StopTail
           /\ calls' = [calls EXCEPT ![c].pc = "afterStop", ![c].settled = "none"]
           /\ microQ' = Append(Tail(microQ), c)
       ELSE
           /\ calls' = [calls EXCEPT ![c].pc = "failed", ![c].settled = "none",
                                     ![c].err = "DelegationFailure"]
           /\ microQ' = Tail(microQ)
           /\ UNCHANGED <<isTranscribing, sessions, emits>>
    /\ UNCHANGED <<phase, cfgIn, env, budget, config, currentSession, managers, timers, subs, raw,
                   listeners, backendCalls, now, period, periodEvents, periodSess,
                   startedOk>>

\* After `await this.stopTranscription()`: removeAllListeners().
DisposeFinish(c) ==
    /\ Ready(c, "dispose", "afterStop")
    /\ listeners' = {}
    /\ calls' = [calls EXCEPT ![c].pc = "done"]
    /\ microQ' = Tail(microQ)
    /\ UNCHANGED <<phase, cfgIn, env, budget, config, isTranscribing, currentSession, sessions,
                   managers, timers, subs, raw, emits, backendCalls, now, period, periodEvents, periodSess,
                   startedOk>>

\* The application registers a listener on the orchestrator, before its
\* first call.
RegisterListener(sig) ==
    /\ phase = "ready"
    /\ calls = <<>>
    /\ listeners = {}
    /\ listeners' = {sig}
    /\ UNCHANGED <<phase, cfgIn, env, budget, config, isTranscribing, currentSession, sessions,
                   managers, calls, microQ, timers, subs, raw, emits, backendCalls, now,
                   period, periodEvents, periodSess,
                   startedOk>>

\* ---------------------------------------------------------------- summarize
\* The keys of the templates object of getPromptTemplate.
TemplateKeys == {"meeting-notes", "action-items", "study-notes", "interview", "custom"}

\* Names every object literal inherits from Object.prototype: templates[name]
\* is a built-in function for them, not undefined.
ObjectPrototypeKeys == {"constructor", "toString"}

\* The template names summarize is tried on: none, each key, a name that is
\* no key, a name inherited from Object.prototype.
TemplateInputs == {Undefined} \cup TemplateKeys \cup {"weekly-report", "constructor"}

\* The customPrompt options summarize is tried on.
PromptInputs == {Undefined, "", "Summarize as a haiku."}

\* The values of the templates object for its own keys.
TemplateText(key, customPrompt) ==
    CASE key = "meeting-notes" ->
             "Generate comprehensive meeting notes with key points and decisions."
      [] key = "action-items" ->
             "Extract action items and assignments from the meeting."
      [] key = "study-notes" ->
             "Create study notes with key concepts and definitions."
      [] key = "interview" ->
             "Summarize interview with key insights and responses."
      [] key = "custom" ->
             IF Falsy(customPrompt) THEN "Summarize the following transcript."
             ELSE customPrompt

\* templates[template]: an own key, an inherited property, or undefined.
TemplateLookup(template, customPrompt) ==
    IF template \in TemplateKeys THEN TemplateText(template, customPrompt)
    ELSE IF template \in ObjectPrototypeKeys
         THEN "[Function: Object.prototype." \o template \o "]"
    ELSE Undefined

\* getPromptTemplate(template, options).
getPromptTemplate(template, customPrompt) ==
    IF Falsy(TemplateLookup(template, customPrompt))
    THEN TemplateLookup("meeting-notes", customPrompt)
    ELSE TemplateLookup(template, customPrompt)

\* options.template || 'meeting-notes'.
ResolveTemplate(template) == IF Falsy(template) THEN "meeting-notes" ELSE template

\* What generateSummary resolves to for call c.
Summary(c) == <<"summary", c>>

\* A guard that reads the configuration instead of the handle.
SummarizeGuardOnConfig == ~AIConfigured(config)

\* The guard at the top of summarize.
SummarizeGuard == managers.ai = 0

\* summarize(options) is called: the guard, the template name, then
\* getTranscriptText() is awaited: the transcription manager's transcript,
\* or the mock text at once.
SummarizeCall(template, customPrompt) ==
    /\ phase = "ready"
    /\ Len(calls) < budget.calls
    /\ LET c == Len(calls) + 1
           rec == [NewCall("summarize") EXCEPT
                      !.input = template,
                      !.arg = <<ResolveTemplate(template), customPrompt>>]
       IN  IF SummarizeGuard THEN
               /\ calls' = Append(calls, [rec EXCEPT !.pc = "failed",
                                                     !.err = "AIProviderNotConfigured"])
               /\ UNCHANGED <<microQ, backendCalls>>
           ELSE IF managers.transcription # 0 THEN
               /\ Called("transcription.getTranscript")
               /\ calls' = Append(calls, [rec EXCEPT !.pc = "awaitTranscript",
                                                     !.settled = "pending"])
               /\ UNCHANGED microQ
           ELSE
               /\ calls' = Append(calls, [rec EXCEPT !.pc = "awaitTranscript",
                                                     !.settled = "resolved"])
               /\ microQ' = Append(microQ, c)
               /\ UNCHANGED backendCalls
    /\ UNCHANGED <<lifecycle, emits>>

\* The transcript has arrived, or getTranscript failed: the prompt is
\* resolved and generateSummary is called, or the error is rethrown.
SummarizeTranscriptDone(c) ==
    /\ Ready(c, "summarize", "awaitTranscript")
    /\ IF calls[c].settled = "resolved" THEN
           /\ Called("ai.generateSummary")
           /\ calls' = [calls EXCEPT
                  ![c].pc = "awaitSummary", ![c].settled = "pending",
                  ![c].prompt = getPromptTemplate(calls[c].arg[1], calls[c].arg[2])]
       ELSE
           /\ calls' = [calls EXCEPT ![c].pc = "failed", ![c].settled = "none",
                                     ![c].err = "DelegationFailure"]
           /\ UNCHANGED backendCalls
    /\ microQ' = Tail(microQ)
    /\ UNCHANGED <<lifecycle, emits>>

\* A test that takes any settled delegated call for a success.
DelegatedSettled(c) == calls[c].settled # "pending"

\* Whether the delegated call of c has succeeded (try) or failed (catch).
DelegatedOk(c) == calls[c].settled = "resolved"

\* The delegated call of an operation has settled: on success the signal is
\* emitted with the value and the value is returned, on failure the error is
\* rethrown.
DelegatedDone(c, sig, val) ==
    /\ IF DelegatedOk(c) THEN
           /\ Emit(ValueSignal(sig, val))
           /\ calls' = [calls EXCEPT ![c].pc = "done", ![c].settled = "none",
                                     ![c].val = val]
       ELSE
           /\ calls' = [calls EXCEPT ![c].pc = "failed", ![c].settled = "none",
                                     ![c].err = "DelegationFailure"]
           /\ UNCHANGED emits
    /\ microQ' = Tail(microQ)
    /\ UNCHANGED <<lifecycle, backendCalls>>

\* generateSummary has settled.
SummarizeDone(c) ==
    /\ Ready(c, "summarize", "awaitSummary")
    /\ DelegatedDone(c, "summary:generated", Summary(c))

\* ------------------------------------------------- shareSession, connectToSession
\* A guard that reads the configuration only, not the handle.
P2PGuardOnConfig == ~config.p2p

\* The guard at the top of shareSession and of connectToSession.
P2PGuard == ~config.p2p \/ managers.session = 0

\* The sessionId arguments shareSession is tried on, the driveKey arguments
\* connectToSession is tried on.
ShareInputs == {Undefined, "peer-session"}
DriveKeyInputs == {"peer-drive-key"}

\* sessionId || this.currentSession?.id, as the one-element tuple of the id,
\* or NoKey when there is none.
ShareTarget(sessionId) ==
    IF ~Falsy(sessionId) THEN <<sessionId>>
    ELSE IF currentSession # 0 THEN <<CurSession.id>>
    ELSE NoKey

\* What the session manager's shareSession and connectToSession resolve to.
ShareInfo(target) == <<"shareInfo", target>>
SessionInfo(key) == <<"sessionInfo", key>>

\* shareSession(sessionId) is called: the P2P guard, the target, then the
\* delegated call is awaited.
ShareCall(sessionId) ==
    /\ phase = "ready"
    /\ Len(calls) < budget.calls
    /\ LET rec == [NewCall("share") EXCEPT !.input = sessionId] IN
       IF P2PGuard THEN
           /\ calls' = Append(calls, [rec EXCEPT !.pc = "failed",
                                                 !.err = "P2PNotEnabled"])
           /\ UNCHANGED backendCalls
       ELSE IF ShareTarget(sessionId) = NoKey THEN
           /\ calls' = Append(calls, [rec EXCEPT !.pc = "failed",
                                                 !.err = "NoActiveSession"])
           /\ UNCHANGED backendCalls
       ELSE
           /\ Called("session.shareSession")
           /\ calls' = Append(calls, [rec EXCEPT !.pc = "awaitShare",
                                                 !.settled = "pending",
                                                 !.arg = ShareTarget(sessionId)])
    /\ UNCHANGED <<lifecycle, emits, microQ>>

\* The delegated shareSession has settled.
ShareDone(c) ==
    /\ Ready(c, "share", "awaitShare")
    /\ DelegatedDone(c, "session:shared", ShareInfo(calls[c].arg))

\* connectToSession(driveKey) is called: the P2P guard, then the delegated
\* call is awaited.
ConnectCall(driveKey) ==
    /\ phase = "ready"
    /\ Len(calls) < budget.calls
    /\ LET rec == [NewCall("connect") EXCEPT !.input = driveKey] IN
       IF P2PGuard THEN
           /\ calls' = Append(calls, [rec EXCEPT !.pc = "failed",
                                                 !.err = "P2PNotEnabled"])
           /\ UNCHANGED backendCalls
       ELSE
           /\ Called("session.connectToSession")
           /\ calls' = Append(calls, [rec EXCEPT !.pc = "awaitConnect",
                                                 !.settled = "pending",
                                                 !.arg = <<driveKey>>])
    /\ UNCHANGED <<lifecycle, emits, microQ>>

\* The delegated connectToSession has settled.
ConnectDone(c) ==
    /\ Ready(c, "connect", "awaitConnect")
    /\ DelegatedDone(c, "session:connected", SessionInfo(calls[c].arg))

\* --------------------------------------------------------------- mock timer
\* Whether the interval callback cancels its interval and returns.
TickCancels == ~isTranscribing

\* One tick of interval i: it cancels itself when the flag is clear, else it
\* emits the next phrase and counts.
TimerFire(i) ==
    /\ microQ = <<>>
    /\ timers[i].live
    /\ timers[i].due
    /\ IF TickCancels THEN
           /\ timers' = [timers EXCEPT ![i].live = FALSE, ![i].due = FALSE]
           /\ UNCHANGED <<emits, periodEvents>>
       ELSE
           /\ Emit(MockEvent(timers[i].counter))
           /\ timers' = [timers EXCEPT ![i].counter = @ + 1, ![i].due = FALSE]
           /\ periodEvents' = periodEvents + 1
    /\ UNCHANGED <<phase, cfgIn, env, budget, config, isTranscribing, currentSession, sessions,
                   managers, calls, microQ, subs, raw, listeners, backendCalls, now, period,
                   periodSess, startedOk>>

\* One timer period (3 s) has passed: every interval that is still set has
\* ticked once in it and is due once in the next.
PeriodElapse ==
    /\ microQ = <<>>
    /\ period < budget.periods
    /\ \E i \in 1..Len(timers) : timers[i].live
    /\ \A i \in 1..Len(timers) : ~timers[i].due
    /\ timers' = [i \in 1..Len(timers) |-> [timers[i] EXCEPT !.due = timers[i].live]]
    /\ now' = now + 1
    /\ period' = period + 1
    /\ periodEvents' = 0
    /\ periodSess' = IF isTranscribing THEN currentSession ELSE 0
    /\ UNCHANGED <<phase, cfgIn, env, budget, config, isTranscribing, currentSession, sessions,
                   managers, calls, microQ, subs, raw, listeners, emits, backendCalls,
                   startedOk>>

\* --------------------------------------------------------- forwarded events
\* The raw events the transcription manager is made to produce: the five
\* fields the forwarding listener reads, and one it does not read.
RawEvents ==
    {[text |-> "raw one", timestamp |-> 11, confidence |-> 80, isFinal |-> FALSE,
      speaker |-> "Speaker A", language |-> "en"],
     [text |-> "raw two", timestamp |-> 12, confidence |-> 60, isFinal |-> TRUE,
      speaker |-> "Speaker B", language |-> "de"]}

\* The event object the forwarding listener builds from the raw event.
ForwardedEvent(data) ==
    [sig |-> "transcription", sess |-> NoSession, val |-> NoKey,
     text |-> data.text, timestamp |-> data.timestamp,
     confidence |-> data.confidence, isFinal |-> data.isFinal,
     speaker |-> data.speaker, heard |-> "transcription" \in listeners]

\* The forwarding listeners registered on manager instance m: one per
\* startTranscription whose delegated start succeeded on it; none is ever
\* removed.
Forwarders(m) == {i \in 1..Len(subs) : subs[i] = m}

\* The transcription manager, once started, produces a raw event: each
\* forwarding listener registered on it re-emits it.
BackendEvent(data) ==
    /\ microQ = <<>>
    /\ managers.transcription # 0
    /\ backendCalls["transcription.startTranscription"] > 0
    /\ Len(raw) < MaxRaw
    /\ raw' = Append(raw, data)
    /\ LET k == Cardinality(Forwarders(managers.transcription)) IN
       IF k = 0 THEN UNCHANGED <<emits, periodEvents>>
       ELSE /\ emitted' = [emitted EXCEPT !["transcription"] = @ + k]
            /\ lastEmit' = ForwardedEvent(data)
            /\ sessionEvents' = sessionEvents + k
            /\ periodEvents' = periodEvents + k
    /\ UNCHANGED <<phase, cfgIn, env, budget, config, isTranscribing, currentSession,
                   sessions, managers, calls, microQ, timers, subs, listeners,
                   backendCalls, now, period, periodSess, startedOk>>

\* -------------------------------------------------------------------- Next
\* The session calls the application issues.
Lifecycle ==
    \/ StartCall
    \/ StopCall
    \/ DisposeCall

\* The application registers a listener, then issues session calls.
Application ==
    \/ \E sig \in ListenerEvents : RegisterListener(sig)
    \/ Lifecycle

\* The session calls of an application that starts one session.
OneSession ==
    \/ StartCall /\ \A d \in 1..Len(calls) : calls[d].kind # "start"
    \/ StopCall
    \/ DisposeCall

\* The other calls the application issues.
Operations ==
    \/ InitializeCall
    \/ SummarizeCall(Undefined, Undefined)
    \/ \E sessionId \in ShareInputs : ShareCall(sessionId)
    \/ \E driveKey \in DriveKeyInputs : ConnectCall(driveKey)

\* The continuations of those calls.
OperationsLoop ==
    \/ \E c \in 1..Len(calls) : InitializeResume(c)
    \/ \E c \in 1..Len(calls) : SummarizeTranscriptDone(c)
    \/ \E c \in 1..Len(calls) : SummarizeDone(c)
    \/ \E c \in 1..Len(calls) : ShareDone(c)
    \/ \E c \in 1..Len(calls) : ConnectDone(c)

\* Backend promises settle and the continuations of start, stop and dispose
\* run.
Continuations ==
    \/ \E c \in 1..Len(calls), ok \in BOOLEAN : BackendSettle(c, ok)
    \/ \E c \in 1..Len(calls) : StartAfterInit(c)
    \/ \E c \in 1..Len(calls) : StartCaptureDone(c)
    \/ \E c \in 1..Len(calls) : StopResume(c)
    \/ \E c \in 1..Len(calls) : DisposeStopResume(c)
    \/ \E c \in 1..Len(calls) : DisposeFinish(c)

\* The mock intervals.
Timers ==
    \/ \E i \in 1..Len(timers) : TimerFire(i)
    \/ PeriodElapse

\* The event loop without P2P.
EventLoop == Continuations \/ Timers

\* The continuations that only run with P2P on.
P2PLoop ==
    \/ \E c \in 1..Len(calls) : StartInitResume(c)
    \/ \E c \in 1..Len(calls) : StartDriveDone(c)

Next == Constructor \/ Application \/ EventLoop

NextP2P == Constructor \/ Application \/ EventLoop \/ P2PLoop

\* One session and the other calls, overlapping at will; no listener, no
\* timer period.  Overlapping start calls are left to Spec, SpecRace, SpecP2P.
NextOps ==
    Constructor \/ OneSession \/ Operations \/ Continuations \/ P2PLoop \/ OperationsLoop

\* initialize and summarize on every template and customPrompt.
NextPrompt ==
    \/ Constructor
    \/ InitializeCall
    \/ \E template \in TemplateInputs, customPrompt \in PromptInputs :
           SummarizeCall(template, customPrompt)
    \/ \E c \in 1..Len(calls), ok \in BOOLEAN : BackendSettle(c, ok)
    \/ \E c \in 1..Len(calls) : SummarizeTranscriptDone(c)
    \/ \E c \in 1..Len(calls) : SummarizeDone(c)

\* Sessions on a transcription backend that produces raw events.
NextForward ==
    \/ Constructor
    \/ Application
    \/ Continuations
    \/ \E data \in RawEvents : BackendEvent(data)

Spec == Init /\ [][Next]_vars

SpecRace == InitRace /\ [][Next]_vars

SpecP2P == InitP2P /\ [][NextP2P]_vars

SpecCtor == InitCtor /\ [][Constructor]_vars

SpecOps == InitOps /\ [][NextOps]_vars

SpecShare == InitShare /\ [][NextOps]_vars

SpecPrompt == InitPrompt /\ [][NextPrompt]_vars

SpecForward == InitForward /\ [][NextForward]_vars

\* ------------------------------------------------------------------ claims
\* Whether call c has completed.
Finished(c) == calls[c].pc \in {"done", "failed"}

\* Call c completes in this step.
CompletesIn(c) ==
    /\ c \in 1..Len(calls')
    /\ calls'[c].pc \in {"done", "failed"}
    /\ (c > Len(calls) \/ ~Finished(c))

\* A call of the given kind is issued in this step.
IssuedIn(kind) ==
    /\ Len(calls') = Len(calls) + 1
    /\ calls'[Len(calls')].kind = kind

\* A configuration object that gives no privacy mode.
MissingPrivacy(in) == in.privacy \in {Omitted, Undefined, ""}

\* C1: for every configuration object that is missing privacy (the key is
\* omitted, or given an empty or undefined value) construction fails and
\* no instance is produced.
C1_MissingPrivacyFails ==
    (phase # "new" /\ MissingPrivacy(cfgIn)) => phase = "ctorFailed"

\* The sessions returned by the start calls that completed successfully.
StartedSessions ==
    {calls[c].ret : c \in {d \in 1..Len(calls) :
                              calls[d].kind = "start" /\ calls[d].pc = "done"}}

\* C2: of two start calls that overlapped, once both have completed one has
\* failed with AlreadyActive; and at no time are two distinct sessions both
\* started and not yet stopped.
C2_AtMostOneActive ==
    /\ \A c \in 1..Len(calls) : \A d \in calls[c].during :
           (calls[c].kind = "start" /\ Finished(c) /\ Finished(d))
               => (calls[c].err = "AlreadyActive" \/ calls[d].err = "AlreadyActive")
    /\ Cardinality({s \in StartedSessions : sessions[s].status = "active"}) <= 1

\* C3: a start call issued when a start has completed successfully and
\* stopTranscription has not been called since fails with AlreadyActive
\* and changes nothing: session, flag, handles, signals, backend calls.
C3_SecondStartFails ==
    [][(startedOk /\ IssuedIn("start")) =>
           /\ calls'[Len(calls')].pc = "failed"
           /\ calls'[Len(calls')].err = "AlreadyActive"
           /\ UNCHANGED <<isTranscribing, currentSession, sessions, managers,
                          emitted, lastEmit, backendCalls>>]_vars

\* C4: when a stopTranscription or dispose call has returned, no mock
\* interval is still set.
C4_NoTimerAfterStop ==
    [][(\E c \in 1..Len(calls') :
            /\ CompletesIn(c)
            /\ calls'[c].kind \in {"stop", "dispose"}
            /\ calls'[c].pc = "done")
        => \A i \in 1..Len(timers') : ~timers'[i].live]_vars

\* C5: the mock interval of a session emits no transcription event once
\* that session's stop has resolved (the session is ended), whatever
\* was called after the stop.
C5_NoEventAfterStop ==
    [][\A i \in 1..Len(timers) :
           timers'[i].counter # timers[i].counter
               => sessions[timers[i].sess].status # "ended"]_vars

\* C6: in a mock session every period yields exactly one transcription
\* event, the k-th event of the session carries phrase (k-1) mod 5 of the
\* list, with confidence 0.95, isFinal true and speaker 'Speaker 1'.
C6_OneEventPerPeriod ==
    [][/\ emitted'["transcription"] # emitted["transcription"] =>
              /\ lastEmit'.text = mockPhrases[((sessionEvents' - 1) % 5) + 1]
              /\ lastEmit'.confidence = MockConfidence
              /\ lastEmit'.isFinal
              /\ lastEmit'.speaker = "Speaker 1"
              /\ periodEvents' <= 1
       /\ (period' # period /\ periodSess # 0 /\ isTranscribing
              /\ currentSession = periodSess) => periodEvents = 1]_vars

\* C7: a stopTranscription call that finds transcription not active is a
\* no-op: it returns at once, emits nothing, calls no backend and leaves the
\* flag, the current session, the session records and the handles as they are.
C7_StopInactiveNoOp ==
    [][(IssuedIn("stop") /\ ~isTranscribing) =>
           /\ calls'[Len(calls')].pc = "done"
           /\ UNCHANGED <<isTranscribing, currentSession, sessions, managers,
                          emitted, lastEmit, backendCalls, timers, subs, raw, microQ>>]_vars

\* A stop was issued when not active, after a session had been ended.
C7_Witness ==
    \E c \in 1..Len(calls) :
        /\ calls[c].kind = "stop"
        /\ ~calls[c].found
        /\ calls[c].pc = "done"
        /\ CurSession.status = "ended"
        /\ CurSession.endTime # 0

\* The stopTranscription of call c (issued directly, or by dispose), which
\* found transcription active, runs to its end in this step.
StopEndsIn(c) ==
    /\ calls'[c].found
    /\ \/ calls'[c].kind = "stop" /\ calls'[c].pc = "done"
       \/ calls'[c].kind = "dispose" /\ calls'[c].pc = "afterStop"
    /\ (c > Len(calls) \/ calls[c].pc = "awaitStop")

\* C8: a stopTranscription that found transcription active and whose
\* delegated stop succeeded ends with the flag clear and the current session
\* ended, its endTime set and not before its startTime, and has emitted
\* session:stopped carrying the session with those fields set.
C8_StopEndsSession ==
    [][\A c \in 1..Len(calls') : StopEndsIn(c) =>
           /\ ~isTranscribing'
           /\ currentSession' # 0
           /\ sessions'[currentSession'].status = "ended"
           /\ sessions'[currentSession'].endTime # 0
           /\ sessions'[currentSession'].endTime >= sessions'[currentSession'].startTime
           /\ emitted'["session:stopped"] = emitted["session:stopped"] + 1
           /\ lastEmit'.sig = "session:stopped"
           /\ lastEmit'.sess = sessions'[currentSession']]_vars

\* A stop that awaited the delegated stop has ended a session.
C8_Witness ==
    \E c \in 1..Len(calls) :
        /\ calls[c].kind = "stop"
        /\ calls[c].found
        /\ calls[c].pc = "done"
        /\ backendCalls["transcription.stopRecording"] > 0
        /\ lastEmit.sig = "session:stopped"
        /\ lastEmit.sess.endTime > lastEmit.sess.startTime

\* C9: when the delegated start of a start call fails, the call fails with
\* that error, isActive() is false, and the call has emitted nothing,
\* registered no forwarding listener and started no mock interval.
C9_FailedStartInactive ==
    [][\A c \in 1..Len(calls) :
           (/\ calls[c].kind = "start"
            /\ calls[c].pc = "awaitCapture"
            /\ calls[c].settled = "rejected"
            /\ calls'[c].pc # "awaitCapture")
           => /\ calls'[c].pc = "failed"
              /\ calls'[c].err = "DelegationFailure"
              /\ ~isTranscribing'
              /\ UNCHANGED <<emitted, lastEmit, subs, raw, timers>>]_vars

\* C10: a start call whose createSessionDrive failed does not fail for it:
\* it completes active, with session:started emitted, and returns a session
\* without keys; a start call whose createSessionDrive succeeded returns a
\* session with exactly the keys it resolved to.
C10_DriveFailureTolerated ==
    [][\A c \in 1..Len(calls') :
           (calls'[c].kind = "start" /\ CompletesIn(c) /\ calls'[c].drive # "none")
           => /\ calls'[c].pc = "failed" => calls'[c].err = "DelegationFailure"
              /\ (calls'[c].pc = "done" /\ calls'[c].drive = "rejected") =>
                     /\ isTranscribing'
                     /\ lastEmit'.sig = "session:started"
                     /\ sessions'[calls'[c].ret].driveKey = NoKey
                     /\ sessions'[calls'[c].ret].discoveryKey = NoKey
              /\ (calls'[c].pc = "done" /\ calls'[c].drive = "resolved") =>
                     /\ sessions'[calls'[c].ret].driveKey = DriveInfo(calls'[c].sess).driveKey
                     /\ sessions'[calls'[c].ret].discoveryKey
                            = DriveInfo(calls'[c].sess).discoveryKey]_vars

\* The four manager handles.
Handles == {"hyperdrive", "session", "transcription", "ai"}

\* C11: the initialized signal is emitted at most once in the life of an
\* orchestrator, however the initialize and startTranscription calls
\* overlap, and no manager that has been constructed is constructed again.
C11_InitializedOnce ==
    [][/\ emitted'["initialized"] <= 1
       /\ \A h \in Handles : managers[h] # 0 => managers'[h] = managers[h]]_vars

\* The manager instance a handle holds failed its asynchronous
\* initialization: the hyperdrive.initialize() of the call that constructed
\* it was rejected.
DriveInitFailed ==
    \E c \in 1..Len(calls) :
        calls[c].hyper = "rejected" /\ managers.hyperdrive = c

\* C12: once initialize has run to its end, whatever managers failed, no
\* initialize has failed, every manager whose construction or initialization
\* failed has its handle absent, and every manager that constructs
\* successfully has its handle present although another one failed.
C12_FailuresIsolated ==
    /\ \A c \in 1..Len(calls) :
           calls[c].kind = "initialize" => calls[c].pc # "failed"
    /\ managers.initialized =>
        /\ ~DriveInitFailed
        /\ env.p2p \in {"loadFail", "hyperCtorFail"} => managers.hyperdrive = 0
        /\ env.p2p = "sessionCtorFail" =>
               managers.session = 0 /\ managers.hyperdrive # 0
        /\ env.p2p = "hyperCtorFail" => managers.session # 0
        /\ env.p2p = "await" => managers.session # 0
        /\ managers.transcription # 0 <=> env.trans
        /\ env.ai \in {"loadFail", "configureFail"} => managers.ai = 0
        /\ env.ai = "ok" => managers.ai # 0

\* The call issued in this step.
IssuedCall == calls'[Len(calls')]

\* C13: a summarize called while the AI handle is absent fails with
\* AIProviderNotConfigured, emits no signal, calls no backend, queues no
\* continuation and changes no state of the orchestrator.
C13_SummarizeWithoutAI ==
    [][IssuedIn("summarize") /\ managers.ai = 0 =>
           /\ IssuedCall.pc = "failed"
           /\ IssuedCall.err = "AIProviderNotConfigured"
           /\ UNCHANGED <<lifecycle, emits, backendCalls, microQ>>]_vars

\* A summarize has failed so although a provider is configured: the handle
\* was absent.
C13_Witness ==
    \E c \in 1..Len(calls) :
        /\ calls[c].kind = "summarize"
        /\ calls[c].err = "AIProviderNotConfigured"
        /\ AIConfigured(config)

\* C14: a shareSession or connectToSession called while P2P is disabled in
\* the configuration or the session handle is absent fails with
\* P2PNotEnabled, also when no session id is available, emits no signal and
\* calls no backend.
C14_P2PNotEnabled ==
    [][/\ IssuedIn("share") \/ IssuedIn("connect")
       /\ ~config.p2p \/ managers.session = 0
       => /\ IssuedCall.pc = "failed"
          /\ IssuedCall.err = "P2PNotEnabled"
          /\ UNCHANGED <<lifecycle, emits, backendCalls, microQ>>]_vars

\* P2P is enabled but the handle is absent, shareSession was called with no
\* session id while there was no session, and has failed with P2PNotEnabled.
C14_Witness ==
    \E c \in 1..Len(calls) :
        /\ calls[c].kind = "share"
        /\ calls[c].err = "P2PNotEnabled"
        /\ calls[c].input = Undefined
        /\ currentSession = 0
        /\ config.p2p

\* C15: a shareSession called without a session id, with P2P enabled and the
\* session handle present, delegates with the id of the currently active
\* session, and fails with NoActiveSession when no session is active: none
\* was started, or the last one was stopped, and none is being started.
C15_ShareDefaultsToActive ==
    [][/\ IssuedIn("share")
       /\ Falsy(IssuedCall.input)
       /\ config.p2p /\ managers.session # 0
       => /\ isTranscribing =>
                 /\ IssuedCall.pc = "awaitShare"
                 /\ IssuedCall.arg = <<CurSession.id>>
          /\ ~isTranscribing /\ StartsInFlight = {} =>
                 /\ IssuedCall.pc = "failed"
                 /\ IssuedCall.err = "NoActiveSession"]_vars

\* The operations that delegate to a backend and announce their result, and
\* the signal each announces it with.
DelegatingKinds == {"summarize", "share", "connect"}

SuccessSignal(kind) ==
    CASE kind = "summarize" -> "summary:generated"
      [] kind = "share"     -> "session:shared"
      [] kind = "connect"   -> "session:connected"

\* Call c, waiting for its delegated call, is resumed in this step.
ResumedIn(c) ==
    /\ calls[c].kind \in DelegatingKinds
    /\ calls[c].pc \in {"awaitTranscript", "awaitSummary", "awaitShare", "awaitConnect"}
    /\ calls'[c].pc # calls[c].pc

\* C16: when the delegated call of summarize, shareSession or
\* connectToSession fails, the operation fails with that failure, no signal
\* is emitted and the active flag and the current session are unchanged;
\* when it succeeds the operation's signal is emitted once, carrying the
\* value the operation returns; the signal is emitted at no other time.
C16_DelegatedOutcome ==
    [][/\ \A c \in 1..Len(calls) : ResumedIn(c) =>
              /\ calls[c].settled = "rejected" =>
                     /\ calls'[c].pc = "failed"
                     /\ calls'[c].err = "DelegationFailure"
                     /\ UNCHANGED <<emits, isTranscribing, currentSession, sessions>>
              /\ calls'[c].pc = "done" =>
                     /\ calls[c].settled = "resolved"
                     /\ emitted' = [emitted EXCEPT
                                       ![SuccessSignal(calls[c].kind)] = @ + 1]
                     /\ lastEmit'.sig = SuccessSignal(calls[c].kind)
                     /\ lastEmit'.val = calls'[c].val
                     /\ calls'[c].val # NoKey
                     /\ UNCHANGED <<isTranscribing, currentSession, sessions>>
       /\ \A k \in DelegatingKinds :
              emitted'[SuccessSignal(k)] # emitted[SuccessSignal(k)] =>
                  \E c \in 1..Len(calls) :
                      /\ ResumedIn(c)
                      /\ calls[c].kind = k
                      /\ calls'[c].pc = "done"]_vars

\* A summarize issued during an active session has failed because the AI
\* backend failed: nothing was announced and the session is still active.
C16_Witness ==
    \E c \in 1..Len(calls) :
        /\ calls[c].kind = "summarize"
        /\ calls[c].err = "DelegationFailure"
        /\ calls[c].prompt # Undefined
        /\ calls[c].found
        /\ isTranscribing
        /\ emitted["summary:generated"] = 0

\* The call issued last.
LastCall == calls[Len(calls)]

\* C17: a dispose that found transcription active stops it while the
\* listeners are still registered, so that they receive session:stopped, and
\* completes without error leaving the orchestrator inactive with no
\* listener; a dispose issued right after a completed dispose, no start
\* being under way, completes at once, emits nothing and changes nothing.
C17_DisposeStopsThenReleases ==
    [][/\ \A c \in 1..Len(calls') :
              calls'[c].kind = "dispose" /\ calls'[c].found =>
                  /\ emitted'["session:stopped"] # emitted["session:stopped"] =>
                         /\ listeners' = listeners
                         /\ lastEmit'.heard = ("session:stopped" \in listeners)
                  /\ CompletesIn(c) =>
                         /\ calls'[c].pc = "done"
                         /\ ~isTranscribing'
                         /\ listeners' = {}
       /\ /\ IssuedIn("dispose")
          /\ calls # <<>>
          /\ LastCall.kind = "dispose" /\ LastCall.pc = "done"
          /\ LastCall.during = {} /\ StartsInFlight = {}
          => /\ IssuedCall.pc = "done"
             /\ UNCHANGED <<emits, isTranscribing, currentSession, sessions,
                            listeners, managers, timers, backendCalls>>]_vars

\* The prompt the template name and the customPrompt option stand for: the
\* fixed prompt of one of the four keys, the caller's prompt or the generic
\* instruction for custom, the meeting-notes prompt for every other name
\* and for none.
ExpectedPrompt(template, customPrompt) ==
    IF template \in {"meeting-notes", "action-items", "study-notes", "interview"}
    THEN TemplateText(template, customPrompt)
    ELSE IF template = "custom"
    THEN (IF Falsy(customPrompt) THEN "Summarize the following transcript."
          ELSE customPrompt)
    ELSE "Generate comprehensive meeting notes with key points and decisions."

\* C18: the prompt summarize passes to generateSummary is the one its
\* template name and customPrompt option stand for, whatever the name.
C18_PromptResolution ==
    [][\A c \in 1..Len(calls) :
           ResumedIn(c) /\ calls'[c].pc = "awaitSummary" =>
               calls'[c].prompt = ExpectedPrompt(calls[c].input, calls[c].arg[2])]_vars

\* The calls that take session data off the device: the session manager's.
P2POps == {"session.createSessionDrive", "session.shareSession",
           "session.connectToSession"}

\* C19: an orchestrator whose privacy mode is local-only never calls the
\* session manager and never hands the transcript to a non-local AI
\* provider, whatever its p2p and ai settings and whatever is called.
C19_LocalOnlyStaysLocal ==
    config.privacy = "local-only" =>
        /\ \A op \in P2POps : backendCalls[op] = 0
        /\ AIConfigured(config) => backendCalls["ai.generateSummary"] = 0

\* A startTranscription completes successfully in this step.
StartSucceedsIn(c) ==
    /\ calls'[c].kind = "start"
    /\ CompletesIn(c)
    /\ calls'[c].pc = "done"

\* C20: while a callback is registered with onSessionUpdate, every
\* startTranscription that succeeds and every stopTranscription that ends a
\* session invokes it with the session: the signal it listens to is emitted
\* in that step, carrying the current session.
C20_SessionUpdateNotified ==
    [][/\ "session:updated" \in listeners
       /\ \E c \in 1..Len(calls') : StartSucceedsIn(c) \/ StopEndsIn(c)
       => /\ emitted'["session:updated"] > emitted["session:updated"]
          /\ lastEmit'.sess = sessions'[currentSession']]_vars

\* C21: a startTranscription that succeeds returns the session this very
\* call created, active and with no endTime, with the flag set; in that step
\* session:started is emitted once, carrying that session; and session:started
\* is emitted in no other step.
C21_StartReturnsOwnSession ==
    [][/\ \A c \in 1..Len(calls') : StartSucceedsIn(c) =>
              /\ calls'[c].ret = calls'[c].sess
              /\ calls'[c].ret # 0
              /\ sessions'[calls'[c].ret].status = "active"
              /\ sessions'[calls'[c].ret].endTime = 0
              /\ isTranscribing'
              /\ emitted'["session:started"] = emitted["session:started"] + 1
              /\ lastEmit'.sig = "session:started"
              /\ lastEmit'.sess = sessions'[calls'[c].sess]
       /\ emitted'["session:started"] # emitted["session:started"] =>
              \E c \in 1..Len(calls') : StartSucceedsIn(c)]_vars

\* The transcription manager produces a raw event in this step.
ProducedIn == Len(raw') = Len(raw) + 1

\* The raw event produced in this step.
Produced == raw'[Len(raw')]

\* The fields a transcription event copies from the raw event.
EventFields == {"text", "timestamp", "confidence", "isFinal", "speaker"}

\* C22: a raw event the transcription manager produces during an active
\* session, whichever session of the orchestrator it is, is emitted as one
\* transcription signal in that step, with the fields text, timestamp,
\* confidence, isFinal and speaker of the raw event and no other field of it.
C22_ForwardedOnce ==
    [][ProducedIn /\ isTranscribing =>
           /\ emitted'["transcription"] = emitted["transcription"] + 1
           /\ lastEmit'.sig = "transcription"
           /\ \A f \in EventFields : lastEmit'[f] = Produced[f]
           /\ "language" \notin DOMAIN lastEmit']_vars

\* C23: once an initialization has completed, no step of any operation
\* changes any of the four handles.
C23_HandlesWrittenOnce ==
    [][managers.initialized =>
           \A h \in Handles : managers'[h] = managers[h]]_vars

\* What holds of the transcription and AI managers and of the session
\* manager whichever way the drive manager is read: a handle is present only
\* if its manager is attempted under the configuration, and after
\* initialize it is present if moreover nothing failed.
AttemptsOfOthers ==
    /\ managers.session # 0 => config.p2p
    /\ managers.ai # 0 => AIConfigured(config)
    /\ managers.initialized =>
         /\ config.p2p /\ env.p2p = "await" => managers.session # 0
         /\ env.trans => managers.transcription # 0
         /\ AIConfigured(config) /\ env.ai = "ok" => managers.ai # 0

\* C24 as stated: the drive manager is attempted for every configuration, so
\* that after initialize its handle is present wherever nothing makes it
\* fail, also with P2P disabled (env.p2p is then "unused": the P2P block is
\* not run, whatever the backend would do); the other managers as above.
C24_DriveAlwaysAttempted ==
    /\ AttemptsOfOthers
    /\ managers.initialized /\ env.p2p \in {"unused", "sessionCtorFail", "await"} =>
           managers.hyperdrive # 0

\* C24: the drive manager and the session manager are attempted only if P2P
\* is enabled, the transcription manager for every configuration, the AI
\* manager only if the provider is not local; hence the drive and session
\* handles are present only if P2P is enabled and the AI handle only if the
\* provider is not local, and after initialize each attempted manager that
\* did not fail is present.
C24_AttemptsFollowConfig ==
    /\ AttemptsOfOthers
    /\ managers.hyperdrive # 0 => config.p2p
    /\ managers.initialized /\ config.p2p /\ env.p2p \in {"sessionCtorFail", "await"} =>
           managers.hyperdrive # 0

\* initialize has run with P2P disabled and a non-local provider, in an
\* environment where nothing fails: the transcription and AI handles are
\* present, the drive and session handles absent.
C24_Witness ==
    /\ managers.initialized
    /\ ~config.p2p /\ AIConfigured(config)
    /\ env.trans /\ env.ai = "ok"
    /\ managers.transcription # 0 /\ managers.ai # 0
    /\ managers.hyperdrive = 0 /\ managers.session = 0

\* No operation is in progress: every call issued has completed.
Quiescent == \A c \in 1..Len(calls) : Finished(c)

\* C25: whenever no operation is in progress, the flag is set exactly when
\* the current session exists, has status active and has no endTime.
C25_FlagMatchesSession ==
    phase = "ready" /\ Quiescent =>
        (isTranscribing <=>
            /\ currentSession # 0
            /\ CurSession.status = "active"
            /\ CurSession.endTime = 0)

\* The stop and dispose calls whose stopRecording, called for session s, is
\* pending or has succeeded.
StopsOf(s) ==
    {c \in 1..Len(calls) :
        /\ calls[c].kind \in {"stop", "dispose"}
        /\ calls[c].sess = s
        /\ calls[c].err = "none"}

\* C26: a session is stopped at most once, however stop and dispose calls
\* overlap: stopRecording is not called for a session for which a call of it
\* is pending or has succeeded, session:stopped is not emitted for a session
\* that has ended, an ended session keeps its endTime and status, and a stop
\* ends the session that was current when it began.
C26_StoppedAtMostOnce ==
    [][/\ backendCalls'["transcription.stopRecording"]
              # backendCalls["transcription.stopRecording"] =>
              StopsOf(currentSession) = {}
       /\ emitted'["session:stopped"] # emitted["session:stopped"] =>
              currentSession # 0 /\ CurSession.status # "ended"
       /\ \A s \in 1..Len(sessions) : sessions[s].status = "ended" =>
              /\ sessions'[s].status = "ended"
              /\ sessions'[s].endTime = sessions[s].endTime
       /\ \A c \in 1..Len(calls) :
              StopEndsIn(c) /\ calls[c].sess # 0 => currentSession' = calls[c].sess]_vars

\* C27: a raw event the transcription manager produces while transcription
\* is not active and no start is under way, as after a stopTranscription
\* that has resolved, is not emitted as a transcription signal.
C27_NoForwardWhenInactive ==
    [][ProducedIn /\ ~isTranscribing /\ StartsInFlight = {} =>
           emitted'["transcription"] = emitted["transcription"]]_vars

\* Call c, a stop or a dispose whose stopRecording was rejected, is resumed
\* in this step.
StopFailsIn(c) ==
    /\ calls[c].kind \in {"stop", "dispose"}
    /\ calls[c].pc = "awaitStop"
    /\ calls[c].settled = "rejected"
    /\ calls'[c].pc # "awaitStop"

\* C28: when the delegated stopRecording fails, the stopTranscription or
\* dispose that awaited it fails with that error and changes nothing: the
\* flag, the session with its status and endTime, the listeners and the
\* timers are as before and nothing is emitted.
C28_FailedStopChangesNothing ==
    [][\A c \in 1..Len(calls) : StopFailsIn(c) =>
           /\ calls'[c].pc = "failed"
           /\ calls'[c].err = "DelegationFailure"
           /\ UNCHANGED <<isTranscribing, currentSession, sessions, listeners,
                          emits, timers, subs, managers, backendCalls>>]_vars

\* A stopTranscription and then a dispose have failed on an active session
\* with a listener registered: the session is still active, nothing was
\* announced, the listener is still registered.
C28_Witness ==
    /\ \E c \in 1..Len(calls) :
           calls[c].kind = "stop" /\ calls[c].err = "DelegationFailure"
    /\ \E c \in 1..Len(calls) :
           calls[c].kind = "dispose" /\ calls[c].err = "DelegationFailure"
    /\ isTranscribing
    /\ CurSession.status = "active" /\ CurSession.endTime = 0
    /\ emitted["session:stopped"] = 0
    /\ listeners # {}

\* A dispose was called while a start was suspended, and no start was
\* issued after it.
DisposedDuringStart ==
    \E d \in 1..Len(calls) :
        /\ calls[d].kind = "dispose"
        /\ calls[d].during # {}
        /\ \A c \in (d + 1)..Len(calls) : calls[c].kind # "start"

\* C29: after a dispose called while a start was suspended, with no start
\* issued later, once every call has settled the orchestrator is inactive
\* and no mock timer runs for a session that has not ended.
C29_DisposeFinalAgainstStart ==
    phase = "ready" /\ Quiescent /\ DisposedDuringStart =>
        /\ ~isTranscribing
        /\ \A i \in 1..Len(timers) :
               timers[i].live => sessions[timers[i].sess].status = "ended"

\* Neither initialize() nor startTranscription() has been called.
NeverInitialized ==
    \A c \in 1..Len(calls) : calls[c].kind \notin {"initialize", "start"}

\* A step of summarize, shareSession or connectToSession: the call is issued
\* or resumed.
DelegatingStep ==
    \/ \E k \in DelegatingKinds : IssuedIn(k)
    \/ \E c \in 1..Len(calls) : ResumedIn(c)

\* C30: on an orchestrator on which neither initialize nor
\* startTranscription has been called, whatever its configuration, summarize
\* fails with AIProviderNotConfigured and shareSession and connectToSession
\* fail with P2PNotEnabled; no step of these three operations changes a
\* handle, sets the initialized flag or emits initialized; and every handle
\* is absent until initialize or startTranscription is called.
C30_HandlesOnlyThroughInitialize ==
    [][/\ NeverInitialized /\ IssuedIn("summarize") =>
              IssuedCall.pc = "failed" /\ IssuedCall.err = "AIProviderNotConfigured"
       /\ NeverInitialized /\ (IssuedIn("share") \/ IssuedIn("connect")) =>
              IssuedCall.pc = "failed" /\ IssuedCall.err = "P2PNotEnabled"
       /\ DelegatingStep =>
              /\ managers' = managers
              /\ emitted'["initialized"] = emitted["initialized"]
       /\ NeverInitialized =>
              \A h \in Handles : managers[h] = 0]_vars

\* With P2P enabled and a non-local provider configured, summarize and
\* shareSession have both failed on an orchestrator that was never
\* initialized.
C30_Witness ==
    /\ NeverInitialized
    /\ config.p2p /\ AIConfigured(config)
    /\ \E c \in 1..Len(calls) :
           calls[c].kind = "summarize" /\ calls[c].err = "AIProviderNotConfigured"
    /\ \E c \in 1..Len(calls) :
           calls[c].kind = "share" /\ calls[c].err = "P2PNotEnabled"
    /\ ~managers.initialized
    /\ emitted["initialized"] = 0

=============================================================================
